---- MODULE Spec2Model ----
(***************************************************************************)
(* Model of src/server.py of mcp-hackernews: the four operations           *)
(* get_top_stories, get_new_stories, get_story and search_stories.  The    *)
(* decorated tools (lines 161-332) are textually identical to their *_http *)
(* twins (lines 21-159), so one set of actions models both.                *)
(*                                                                         *)
(* Python values are tagged records: t is the Python type, v the payload.  *)
(* A string is a sequence of chunks, so that formatting an integer into a  *)
(* message or a URL is computed (Decimal) and not assumed.                 *)
(***************************************************************************)
EXTENDS Integers, Sequences, FiniteSets, TLC

VARIABLES pc, op, arg_limit, limit, story_id, query, story_ids, idx,
          stories, src, seen, log, body, failed, result, cur, saved

\* the running invocation's arguments, locals and history
locals == <<pc, op, arg_limit, limit, story_id, query, story_ids, idx,
            stories, src, seen, log, body, failed, result>>

vars == <<pc, op, arg_limit, limit, story_id, query, story_ids, idx,
          stories, src, seen, log, body, failed, result, cur, saved>>

\* ---------------------------------------------------------------- bounds
MaxId == 3
MaxListLen == 3
MaxBelowZero == 1
MaxLimit == 3
MaxHits == 2
ClampSpan == 5
MaxInvocations == 2

\* ------------------------------------------------------ program constants
TopLimitMax == 30
NewLimitMax == 30
SearchLimitMax == 20

\* ---------------------------------------------------------- Python values
PyNone == [t |-> "none"]
PyInt(n) == [t |-> "int", v |-> n]
PyStr(chunks) == [t |-> "str", v |-> chunks]
PyList(s) == [t |-> "list", v |-> s]
PyDict(f) == [t |-> "dict", v |-> f]

S(c) == PyStr(<<c>>)
EmptyStr == PyStr(<<>>)

Truthy(x) ==
    CASE x.t = "none" -> FALSE
      [] x.t = "int"  -> x.v # 0
      [] x.t = "str"  -> x.v # <<>>
      [] x.t = "list" -> x.v # <<>>
      [] x.t = "dict" -> DOMAIN x.v # {}

PyEq(a, b) ==
    /\ a.t = b.t
    /\ (a.t # "none" => a.v = b.v)

DigitChars == <<"0", "1", "2", "3", "4", "5", "6", "7", "8", "9">>

RECURSIVE Digits(_)
Digits(n) == IF n < 10 THEN <<DigitChars[n + 1]>>
             ELSE Digits(n \div 10) \o <<DigitChars[(n % 10) + 1]>>

Decimal(n) == IF n < 0 THEN <<"-">> \o Digits(0 - n) ELSE Digits(n)

\* str(x) as used by the f-strings and by time_iso
Str(x) ==
    CASE x.t = "none" -> <<"None">>
      [] x.t = "int"  -> Decimal(x.v)
      [] x.t = "str"  -> x.v
      [] OTHER        -> <<"<repr>">>

Min(a, b) == IF a < b THEN a ELSE b
Max(a, b) == IF a > b THEN a ELSE b

\* a slice that keeps the whole list
SliceAll(s, n) == s

\* s[:n] on a list
Slice(s, n) == IF n >= 0 THEN SubSeq(s, 1, Min(n, Len(s)))
               ELSE SubSeq(s, 1, Max(Len(s) + n, 0))

\* d.get(k, default) on a dict
Get(d, k, default) == IF k \in DOMAIN d.v THEN d.v[k] ELSE default

DiscussionUrl(id) == PyStr(<<"https://news.ycombinator.com/item?id=">> \o Str(id))

\* ------------------------------------------------------------- exceptions
Parent(cls) ==
    CASE cls = "ConnectError"    -> "TransportError"
      [] cls = "ReadTimeout"     -> "TimeoutException"
      [] cls = "TimeoutException" -> "TransportError"
      [] cls = "TransportError"  -> "RequestError"
      [] cls = "RequestError"    -> "HTTPError"
      [] cls = "HTTPStatusError" -> "HTTPError"
      [] cls = "HTTPError"       -> "Exception"
      [] cls = "JSONDecodeError" -> "ValueError"
      [] cls = "ValueError"      -> "Exception"
      [] cls = "TypeError"       -> "Exception"
      [] cls = "AttributeError"  -> "Exception"
      [] OTHER                   -> "BaseException"

RECURSIVE IsInstance(_, _)
IsInstance(cls, base) ==
    IF cls = base THEN TRUE
    ELSE IF cls = "BaseException" THEN FALSE
    ELSE IsInstance(Parent(cls), base)

Exc(cls, msg) == [cls |-> cls, msg |-> msg]

Returned(doc) == [raised |-> FALSE, doc |-> doc]
Raised(e) == [raised |-> TRUE, exc |-> e]
NoResult == [raised |-> FALSE, doc |-> PyNone]

ErrorDoc(chunks) == PyDict([error |-> PyStr(chunks)])

\* Handle without the catch-all clause
HandleRequestErrorOnly(e) ==
    IF IsInstance(e.cls, "RequestError")
        THEN Returned(ErrorDoc(<<"Request failed: ", e.msg>>))
    ELSE Raised(e)

\* the two except clauses that close every operation
Handle(e) ==
    IF IsInstance(e.cls, "RequestError")
        THEN Returned(ErrorDoc(<<"Request failed: ", e.msg>>))
    ELSE IF IsInstance(e.cls, "Exception")
        THEN Returned(ErrorDoc(<<"Unexpected error: ", e.msg>>))
    ELSE Raised(e)

\* --------------------------------------------------------------- upstream
\* what httpx.get + raise_for_status + json() can produce for one call
Failures ==
    { [ok |-> FALSE, exc |-> Exc("ConnectError", "connection failed")],
      [ok |-> FALSE, exc |-> Exc("ReadTimeout", "timed out")],
      [ok |-> FALSE, exc |-> Exc("HTTPStatusError", "server error 500")],
      [ok |-> FALSE, exc |-> Exc("JSONDecodeError", "expecting value")] }

TransportFailure(r) ==
    /\ ~r.ok
    /\ r.exc.cls \in {"ConnectError", "ReadTimeout", "HTTPStatusError"}

Ok(b) == [ok |-> TRUE, body |-> b]

Ids == 1..MaxId

Listings ==
    { s \in UNION { [1..n -> Ids] : n \in 0..MaxListLen } :
        \A i, j \in 1..Len(s) : i # j => s[i] # s[j] }

ListingResponses ==
    Failures
    \cup { Ok(PyList(s)) : s \in Listings }
    \cup { Ok(PyNone), Ok(PyDict([error |-> S("Permission denied")])) }

FullItem(i, type) ==
    PyDict([id |-> PyInt(i), type |-> S(type), title |-> S("T"),
            url |-> S("http://example.com/"), score |-> PyInt(5),
            by |-> S("pg"), descendants |-> PyInt(2), time |-> PyInt(9),
            text |-> S("body"), kids |-> PyList(<<PyInt(8)>>)])

ItemBodies(i) ==
    { PyNone,
      PyDict(<<>>),
      PyInt(7),
      FullItem(i, "story"),
      FullItem(i, "job"),
      PyDict([id |-> PyInt(i), type |-> S("story")]),
      PyDict([id |-> PyInt(i), title |-> S("T")]),
      PyDict([id |-> PyInt(i), type |-> S("story"), title |-> PyNone,
              url |-> PyNone, score |-> PyNone, by |-> PyNone,
              descendants |-> PyNone, time |-> PyNone]) }

ItemResponses(i) == Failures \cup { Ok(b) : b \in ItemBodies(i) }

FullHit(i) ==
    PyDict([objectID |-> PyStr(Decimal(i)), title |-> S("T"),
            url |-> S("http://example.com/"), points |-> PyInt(5),
            author |-> S("pg"), num_comments |-> PyInt(2),
            created_at_i |-> PyInt(9), created_at |-> S("1970-01-01T00:00:09Z")])

HitBodies ==
    { FullHit(1),
      PyDict([objectID |-> PyStr(Decimal(2))]),
      PyDict([objectID |-> PyStr(Decimal(3)), title |-> PyNone, url |-> PyNone,
              points |-> PyNone, author |-> PyNone, num_comments |-> PyNone,
              created_at_i |-> PyNone]),
      PyInt(7) }

HitLists == UNION { [1..n -> HitBodies] : n \in 0..MaxHits }

SearchResponses ==
    Failures
    \cup { Ok(PyDict([hits |-> PyList(h)])) : h \in HitLists }
    \cup { Ok(PyNone), Ok(PyList(<<>>)), Ok(PyDict([message |-> S("bad")])),
           Ok(PyDict([hits |-> PyNone])) }

\* Clamp without the lower bound
ClampUpperOnly(n, hi) == Min(n, hi)

Clamp(n, hi) == Min(Max(n, 1), hi)

\* ------------------------------------------------------------ normalizer
TimeIso(story) ==
    LET t == Get(story, "time", PyNone)
    IN IF Truthy(t) /\ Truthy(PyStr(Str(t))) THEN PyStr(Str(t)) ELSE PyNone

TopRecord(story, sid) ==
    PyDict([id |-> Get(story, "id", PyNone),
            title |-> Get(story, "title", EmptyStr),
            url |-> Get(story, "url", DiscussionUrl(PyInt(sid))),
            score |-> Get(story, "score", PyInt(0)),
            author |-> Get(story, "by", EmptyStr),
            comments |-> Get(story, "descendants", PyInt(0)),
            time |-> Get(story, "time", PyInt(0)),
            time_iso |-> TimeIso(story)])

NewRecord(story, sid) ==
    PyDict([id |-> Get(story, "id", PyNone),
            title |-> Get(story, "title", EmptyStr),
            url |-> Get(story, "url", DiscussionUrl(PyInt(sid))),
            score |-> Get(story, "score", PyInt(0)),
            author |-> Get(story, "by", EmptyStr),
            time |-> Get(story, "time", PyInt(0)),
            time_iso |-> TimeIso(story)])

StoryRecord(story, sid) ==
    PyDict([id |-> Get(story, "id", PyNone),
            title |-> Get(story, "title", EmptyStr),
            url |-> Get(story, "url", DiscussionUrl(PyInt(sid))),
            score |-> Get(story, "score", PyInt(0)),
            author |-> Get(story, "by", EmptyStr),
            comments |-> Get(story, "descendants", PyInt(0)),
            time |-> Get(story, "time", PyInt(0)),
            text |-> Get(story, "text", EmptyStr),
            kids |-> Get(story, "kids", PyList(<<>>))])

HitRecord(hit) ==
    PyDict([id |-> Get(hit, "objectID", PyNone),
            title |-> Get(hit, "title", EmptyStr),
            url |-> Get(hit, "url", DiscussionUrl(Get(hit, "objectID", PyNone))),
            score |-> Get(hit, "points", PyInt(0)),
            author |-> Get(hit, "author", EmptyStr),
            comments |-> Get(hit, "num_comments", PyInt(0)),
            time |-> Get(hit, "created_at_i", PyInt(0)),
            time_iso |-> Get(hit, "created_at", EmptyStr)])

\* the test without its type comparison
IsPresent(story) == Truthy(story)

\* the test of the listing loops: story and story.get('type') == 'story'
\* (meaningful on a truthy dict; a truthy non-dict raises before this)
IsStory(story) == Truthy(story) /\ PyEq(Get(story, "type", PyNone), S("story"))

ListingRecord(kind, story, sid) ==
    IF kind = "top" THEN TopRecord(story, sid) ELSE NewRecord(story, sid)

LimitMax(kind) ==
    CASE kind = "top" -> TopLimitMax
      [] kind = "new" -> NewLimitMax
      [] kind = "search" -> SearchLimitMax

\* insertion at the front instead of the back
PrependStory(acc, rec) == <<rec>> \o acc

\* stories.append(record)
AppendStory(acc, rec) == Append(acc, rec)

\* the search loop: for hit in hits: stories.append({...})
RECURSIVE SearchLoop(_, _, _)
SearchLoop(hits, k, acc) ==
    IF k > Len(hits) THEN Returned(PyList(acc))
    ELSE IF hits[k].t # "dict"
        THEN Handle(Exc("AttributeError", "object has no attribute 'get'"))
    ELSE SearchLoop(hits, k + 1, AppendStory(acc, HitRecord(hits[k])))

LogEntry(req, n, ok) == [req |-> req, n |-> n, ok |-> ok]

FailureOf(r) == IF TransportFailure(r) THEN r.exc.cls ELSE ""

\* ---------------------------------------------------------------- state
Invocations == 1..MaxInvocations

\* the frame of an invocation that is not running: its arguments and locals
Frame(p, o, al, l, sid, q, ids, i, st, sr, sn, lg, b, f, r) ==
    [pc |-> p, op |-> o, arg_limit |-> al, limit |-> l, story_id |-> sid,
     query |-> q, story_ids |-> ids, idx |-> i, stories |-> st, src |-> sr,
     seen |-> sn, log |-> lg, body |-> b, failed |-> f, result |-> r]

IdleFrame == Frame("idle", "", 0, 0, 0, "", <<>>, 0, <<>>, <<>>, <<>>, <<>>,
                   PyNone, "", NoResult)

Init ==
    /\ cur = 1
    /\ saved = [i \in Invocations |-> IdleFrame]
    /\ pc = "idle"
    /\ op = ""
    /\ arg_limit = 0
    /\ limit = 0
    /\ story_id = 0
    /\ query = ""
    /\ story_ids = <<>>
    /\ idx = 0
    /\ stories = <<>>
    /\ src = <<>>
    /\ seen = <<>>
    /\ log = <<>>
    /\ body = PyNone
    /\ failed = ""
    /\ result = NoResult

Limits == (0 - MaxBelowZero)..MaxLimit
Queries == {"rust"}
StoryIds == Ids \cup {999999}

\* the inputs of the clamping check: limits around and beyond both bounds,
\* and an upstream that answers every call with stories only
WideLimits == ((0 - ClampSpan)..(TopLimitMax + ClampSpan)) \cup {100}
LongLens == {2, SearchLimitMax + 1, TopLimitMax - 1, TopLimitMax + 1}
Countdown(n) == [k \in 1..n |-> n + 1 - k]

\* the inputs of the concurrent runs: one limit, and an upstream whose
\* answers are a success of each kind or a failure
ConcLimits == {2}
ConcStoryIds == {1}
ConcFailure == [ok |-> FALSE, exc |-> Exc("HTTPStatusError", "server error 500")]

ListingWorld(w) ==
    IF w = "any" THEN ListingResponses
    ELSE IF w = "conc" THEN { Ok(PyList(<<2, 1>>)), ConcFailure }
    ELSE { Ok(PyList(Countdown(n))) : n \in LongLens }

ItemWorld(w, i) ==
    IF w = "any" THEN ItemResponses(i)
    ELSE IF w = "conc"
        THEN { Ok(FullItem(i, "story")), Ok(FullItem(i, "job")), ConcFailure }
    ELSE { Ok(FullItem(i, "story")) }

SearchWorld(w) ==
    IF w = "any" THEN SearchResponses
    ELSE IF w = "conc"
        THEN { Ok(PyDict([hits |-> PyList(<<FullHit(2), FullHit(1)>>)])),
               Ok(PyDict([hits |-> PyList(<<FullHit(3)>>)])), ConcFailure }
    ELSE { Ok(PyDict([hits |-> PyList([k \in 1..n |-> FullHit(k)])])) :
             n \in 0..MaxHits }

\* ------------------------------------------------------ listing operations
\* entry of get_top_stories / get_new_stories: limit = min(max(limit, 1), 30)
CallListing(kind, lims) ==
    /\ pc = "idle"
    /\ \E l \in lims :
        /\ arg_limit' = l
        /\ limit' = Clamp(l, LimitMax(kind))
    /\ op' = kind
    /\ pc' = "listing"
    /\ UNCHANGED <<story_id, query, story_ids, idx, stories, src, seen, log,
                   body, failed, result>>

\* the listing fetch, raise_for_status, json() and the [:limit] slice
FetchListing(w) ==
    /\ pc = "listing"
    /\ \E r \in ListingWorld(w) :
        /\ log' = Append(log, LogEntry("listing", 0, r.ok))
        /\ IF ~r.ok
             THEN /\ result' = Handle(r.exc)
                  /\ failed' = FailureOf(r)
                  /\ pc' = "done"
                  /\ UNCHANGED <<story_ids, idx, body>>
           ELSE IF r.body.t # "list"
             THEN /\ result' = Handle(Exc("TypeError", "object is not subscriptable"))
                  /\ pc' = "done"
                  /\ body' = r.body
                  /\ UNCHANGED <<story_ids, idx, failed>>
           ELSE /\ story_ids' = Slice(r.body.v, limit)
                /\ idx' = 1
                /\ body' = r.body
                /\ pc' = "loop"
                /\ UNCHANGED <<result, failed>>
    /\ UNCHANGED <<op, arg_limit, limit, story_id, query, stories, src, seen>>

\* FetchItem that tolerates a failed item fetch and goes on to the next id
FetchItemSkipFailed(w) ==
    /\ pc = "loop"
    /\ idx <= Len(story_ids)
    /\ LET sid == story_ids[idx]
       IN \E r \in ItemWorld(w, sid) :
        /\ log' = Append(log, LogEntry("item", sid, r.ok))
        /\ IF ~r.ok
             THEN /\ failed' = FailureOf(r)
                  /\ idx' = idx + 1
                  /\ UNCHANGED <<pc, result, stories, src, seen>>
           ELSE IF Truthy(r.body) /\ r.body.t # "dict"
             THEN /\ result' = Handle(Exc("AttributeError", "object has no attribute 'get'"))
                  /\ pc' = "done"
                  /\ seen' = Append(seen, r.body)
                  /\ UNCHANGED <<idx, stories, src, failed>>
           ELSE /\ IF IsStory(r.body)
                     THEN /\ stories' = AppendStory(stories, ListingRecord(op, r.body, sid))
                          /\ src' = Append(src, [pos |-> idx, item |-> r.body])
                     ELSE UNCHANGED <<stories, src>>
                /\ seen' = Append(seen, r.body)
                /\ idx' = idx + 1
                /\ UNCHANGED <<pc, result, failed>>
    /\ UNCHANGED <<op, arg_limit, limit, story_id, query, story_ids, body>>

\* one iteration of the loop: fetch the item, raise_for_status, json(),
\* filter and append
FetchItem(w) ==
    /\ pc = "loop"
    /\ idx <= Len(story_ids)
    /\ LET sid == story_ids[idx]
       IN \E r \in ItemWorld(w, sid) :
        /\ log' = Append(log, LogEntry("item", sid, r.ok))
        /\ IF ~r.ok
             THEN /\ result' = Handle(r.exc)
                  /\ failed' = FailureOf(r)
                  /\ pc' = "done"
                  /\ UNCHANGED <<idx, stories, src, seen>>
           ELSE IF Truthy(r.body) /\ r.body.t # "dict"
             THEN /\ result' = Handle(Exc("AttributeError", "object has no attribute 'get'"))
                  /\ pc' = "done"
                  /\ seen' = Append(seen, r.body)
                  /\ UNCHANGED <<idx, stories, src, failed>>
           ELSE /\ IF IsStory(r.body)
                     THEN /\ stories' = AppendStory(stories, ListingRecord(op, r.body, sid))
                          /\ src' = Append(src, [pos |-> idx, item |-> r.body])
                     ELSE UNCHANGED <<stories, src>>
                /\ seen' = Append(seen, r.body)
                /\ idx' = idx + 1
                /\ UNCHANGED <<pc, result, failed>>
    /\ UNCHANGED <<op, arg_limit, limit, story_id, query, story_ids, body>>

\* return json.dumps(stories) once the loop is exhausted
ReturnStories ==
    /\ pc = "loop"
    /\ idx > Len(story_ids)
    /\ result' = Returned(PyList(stories))
    /\ pc' = "done"
    /\ UNCHANGED <<op, arg_limit, limit, story_id, query, story_ids, idx,
                   stories, src, seen, log, body, failed>>

\* ---------------------------------------------------------------- get_story
CallStory ==
    /\ pc = "idle"
    /\ \E i \in StoryIds : story_id' = i
    /\ op' = "story"
    /\ pc' = "story"
    /\ UNCHANGED <<arg_limit, limit, query, story_ids, idx, stories, src, seen,
                   log, body, failed, result>>

NotFound(sid) == ErrorDoc(<<"Story ">> \o Decimal(sid) \o <<" not found">>)
NotAStory(sid) == ErrorDoc(<<"Item ">> \o Decimal(sid) \o <<" is not a story">>)

\* StoryResult with the type check placed before the absent check
StoryResultTypeFirst(story, sid) ==
    IF story.t # "dict"
        THEN Handle(Exc("AttributeError", "object has no attribute 'get'"))
    ELSE IF ~PyEq(Get(story, "type", PyNone), S("story"))
        THEN Returned(NotAStory(sid))
    ELSE IF ~Truthy(story) THEN Returned(NotFound(sid))
    ELSE Returned(StoryRecord(story, sid))

\* the body of get_story after the fetch
StoryResult(story, sid) ==
    IF ~Truthy(story) THEN Returned(NotFound(sid))
    ELSE IF story.t # "dict"
        THEN Handle(Exc("AttributeError", "object has no attribute 'get'"))
    ELSE IF ~PyEq(Get(story, "type", PyNone), S("story"))
        THEN Returned(NotAStory(sid))
    ELSE Returned(StoryRecord(story, sid))

FetchStory ==
    /\ pc = "story"
    /\ \E r \in ItemResponses(story_id) :
        /\ log' = Append(log, LogEntry("item", story_id, r.ok))
        /\ IF ~r.ok
             THEN /\ result' = Handle(r.exc)
                  /\ failed' = FailureOf(r)
                  /\ UNCHANGED body
             ELSE /\ result' = StoryResult(r.body, story_id)
                  /\ body' = r.body
                  /\ UNCHANGED failed
    /\ pc' = "done"
    /\ UNCHANGED <<op, arg_limit, limit, story_id, query, story_ids, idx,
                   stories, src, seen>>

\* ----------------------------------------------------------- search_stories
CallSearch(lims) ==
    /\ pc = "idle"
    /\ \E l \in lims :
        /\ arg_limit' = l
        /\ limit' = Clamp(l, LimitMax("search"))
    /\ \E q \in Queries : query' = q
    /\ op' = "search"
    /\ pc' = "search"
    /\ UNCHANGED <<story_id, story_ids, idx, stories, src, seen, log, body,
                   failed, result>>

\* the body of search_stories after the fetch
SearchResult(data) ==
    IF data.t # "dict"
        THEN Handle(Exc("AttributeError", "object has no attribute 'get'"))
    ELSE LET hits == Get(data, "hits", PyList(<<>>))
         IN IF hits.t # "list"
                THEN Handle(Exc("TypeError", "object is not iterable"))
            ELSE SearchLoop(hits.v, 1, <<>>)

FetchSearch(w) ==
    /\ pc = "search"
    /\ \E r \in SearchWorld(w) :
        /\ log' = Append(log, LogEntry("search", limit, r.ok))
        /\ IF ~r.ok
             THEN /\ result' = Handle(r.exc)
                  /\ failed' = FailureOf(r)
                  /\ UNCHANGED body
             ELSE /\ result' = SearchResult(r.body)
                  /\ body' = r.body
                  /\ UNCHANGED failed
    /\ pc' = "done"
    /\ UNCHANGED <<op, arg_limit, limit, story_id, query, story_ids, idx,
                   stories, src, seen>>

\* the caller takes the returned document; the invocation's locals are gone
Deliver ==
    /\ pc = "done"
    /\ pc' = "idle"
    /\ op' = ""
    /\ arg_limit' = 0
    /\ limit' = 0
    /\ story_id' = 0
    /\ query' = ""
    /\ story_ids' = <<>>
    /\ idx' = 0
    /\ stories' = <<>>
    /\ src' = <<>>
    /\ seen' = <<>>
    /\ log' = <<>>
    /\ body' = PyNone
    /\ failed' = ""
    /\ result' = NoResult

CallTop == CallListing("top", Limits)
CallNew == CallListing("new", Limits)
CallSearchStories == CallSearch(Limits)
FetchListingIds == FetchListing("any")
FetchItemDetails == FetchItem("any")
FetchSearchHits == FetchSearch("any")

Next ==
    /\ UNCHANGED <<cur, saved>>
    /\ \/ CallTop
       \/ CallNew
       \/ CallStory
       \/ CallSearchStories
       \/ FetchListingIds
       \/ FetchItemDetails
       \/ ReturnStories
       \/ FetchStory
       \/ FetchSearchHits
       \/ Deliver

Spec == Init /\ [][Next]_vars

\* the same operations, called with limits across both clamping bounds
WideCallTop == CallListing("top", WideLimits)
WideCallNew == CallListing("new", WideLimits)
WideCallSearch == CallSearch(WideLimits)
StoriesListing == FetchListing("stories")
StoriesItem == FetchItem("stories")
StoriesSearch == FetchSearch("stories")

ClampNext ==
    /\ UNCHANGED <<cur, saved>>
    /\ \/ WideCallTop
       \/ WideCallNew
       \/ WideCallSearch
       \/ StoriesListing
       \/ StoriesItem
       \/ ReturnStories
       \/ StoriesSearch
       \/ Deliver

ClampSpec == Init /\ [][ClampNext]_vars

\* ------------------------------------------------- concurrent invocations
\* the frame of the running invocation
Running == Frame(pc, op, arg_limit, limit, story_id, query, story_ids, idx,
                 stories, src, seen, log, body, failed, result)

\* a switch that leaves the list of stories where it is, as if `stories`
\* were one module-level list instead of a local of each call
SwitchSharedStories(j) ==
    /\ j # cur
    /\ saved' = [saved EXCEPT ![cur] = Running, ![j] = IdleFrame]
    /\ cur' = j
    /\ pc' = saved[j].pc
    /\ op' = saved[j].op
    /\ arg_limit' = saved[j].arg_limit
    /\ limit' = saved[j].limit
    /\ story_id' = saved[j].story_id
    /\ query' = saved[j].query
    /\ story_ids' = saved[j].story_ids
    /\ idx' = saved[j].idx
    /\ UNCHANGED stories
    /\ src' = saved[j].src
    /\ seen' = saved[j].seen
    /\ log' = saved[j].log
    /\ body' = saved[j].body
    /\ failed' = saved[j].failed
    /\ result' = saved[j].result

\* another invocation gets to run: every name the operations assign is an
\* argument or a local of the call, so the running call's frame is set
\* aside whole and the other call's frame comes back whole
Switch(j) ==
    /\ j # cur
    /\ saved' = [saved EXCEPT ![cur] = Running, ![j] = IdleFrame]
    /\ cur' = j
    /\ pc' = saved[j].pc
    /\ op' = saved[j].op
    /\ arg_limit' = saved[j].arg_limit
    /\ limit' = saved[j].limit
    /\ story_id' = saved[j].story_id
    /\ query' = saved[j].query
    /\ story_ids' = saved[j].story_ids
    /\ idx' = saved[j].idx
    /\ stories' = saved[j].stories
    /\ src' = saved[j].src
    /\ seen' = saved[j].seen
    /\ log' = saved[j].log
    /\ body' = saved[j].body
    /\ failed' = saved[j].failed
    /\ result' = saved[j].result

ConcCallTop == CallListing("top", ConcLimits) /\ UNCHANGED <<cur, saved>>
ConcCallNew == CallListing("new", ConcLimits) /\ UNCHANGED <<cur, saved>>
ConcCallStory == CallStory /\ story_id' \in ConcStoryIds /\ UNCHANGED <<cur, saved>>
ConcCallSearch == CallSearch(ConcLimits) /\ UNCHANGED <<cur, saved>>
ConcFetchListing == FetchListing("conc") /\ UNCHANGED <<cur, saved>>
ConcFetchItem == FetchItem("conc") /\ UNCHANGED <<cur, saved>>
ConcReturnStories == ReturnStories /\ UNCHANGED <<cur, saved>>
ConcFetchStory == FetchStory /\ UNCHANGED <<cur, saved>>
ConcFetchSearch == FetchSearch("conc") /\ UNCHANGED <<cur, saved>>
ConcDeliver == Deliver /\ UNCHANGED <<cur, saved>>
Preempt == \E j \in Invocations : Switch(j)

ConcNext ==
    \/ ConcCallTop
    \/ ConcCallNew
    \/ ConcCallStory
    \/ ConcCallSearch
    \/ ConcFetchListing
    \/ ConcFetchItem
    \/ ConcReturnStories
    \/ ConcFetchStory
    \/ ConcFetchSearch
    \/ ConcDeliver
    \/ Preempt

ConcSpec == Init /\ [][ConcNext]_vars

TypeOK == pc \in {"idle", "listing", "loop", "story", "search", "done"}

\* ------------------------------------------------------------ properties
ListingOp == op \in {"top", "new"}
AllOk == \A k \in 1..Len(log) : log[k].ok
IsErrorDoc(d) ==
    /\ d.t = "dict"
    /\ DOMAIN d.v = {"error"}
    /\ d.v.error.t = "str"
    /\ d.v.error.v # <<>>

FieldsOf(o) ==
    CASE o = "top"    -> {"id", "title", "url", "score", "author", "comments",
                          "time", "time_iso"}
      [] o = "search" -> {"id", "title", "url", "score", "author", "comments",
                          "time", "time_iso"}
      [] o = "new"    -> {"id", "title", "url", "score", "author", "time",
                          "time_iso"}
      [] o = "story"  -> {"id", "title", "url", "score", "author", "comments",
                          "time", "text", "kids"}

IsRecordOf(o, d) == d.t = "dict" /\ DOMAIN d.v = FieldsOf(o)

IsExpectedData(o, d) ==
    IF o = "story" THEN IsRecordOf(o, d)
    ELSE d.t = "list" /\ \A k \in 1..Len(d.v) : IsRecordOf(o, d.v[k])

\* C1: every finished invocation has returned (never raised) a document that
\* is either the operation's data shape (array of Story records, or one
\* Story record for get_story) or an object with the single field error
\* holding a non-empty string; nothing is raised at any point.
C1_AlwaysWellFormedDocument ==
    /\ ~result.raised
    /\ pc = "done" => (IsErrorDoc(result.doc) \/ IsExpectedData(op, result.doc))

\* C1 witness: a non-success status, which only the catch-all turns into an
\* error document
C1_Witness ==
    /\ pc = "done"
    /\ failed = "HTTPStatusError"
    /\ IsErrorDoc(result.doc)

\* C2: in get_top_stories / get_new_stories a failed listing or item fetch
\* ends the invocation with an error document and never an array; only the
\* last fetch issued can be a failed one (nothing is fetched after a
\* failure), and the fetches issued are the listing followed by the ids of
\* story_ids in order, each at most once (nothing is retried).
C2_FailFastFanOut ==
    ListingOp =>
        /\ \A k \in 1..(Len(log) - 1) : log[k].ok
        /\ (Len(log) > 0 /\ ~log[Len(log)].ok)
              => (pc = "done" /\ IsErrorDoc(result.doc))
        /\ failed # "" => (pc = "done" /\ ~log[Len(log)].ok)
        /\ Len(log) <= 1 + Len(story_ids)
        /\ \A k \in 1..Len(log) :
              IF k = 1 THEN log[k].req = "listing"
              ELSE log[k].req = "item" /\ log[k].n = story_ids[k - 1]

\* C2 witness: an item fetch fails after a story was already normalized and
\* before the last id was fetched
C2_Witness ==
    /\ ListingOp
    /\ pc = "done"
    /\ failed # ""
    /\ Len(stories) >= 1
    /\ Len(log) < 1 + Len(story_ids)
    /\ IsErrorDoc(result.doc)

\* C3 (as claimed): every network failure, timeout or non-success status of
\* an upstream call yields the error document whose message starts with
\* "Request failed: ".
C3_TransportErrorIsRequestFailed ==
    (pc = "done" /\ failed # "") =>
        /\ IsErrorDoc(result.doc)
        /\ result.doc.v.error.v[1] = "Request failed: "

\* the decimal text of the story ids the model calls get_story with
IdText(i) == IF i = 999999 THEN <<"9", "9", "9", "9", "9", "9">>
             ELSE <<DigitChars[i + 1]>>

Absent(b) == b.t = "none" \/ (b.t = "dict" /\ DOMAIN b.v = {})
ExistingItem(b) == b.t = "dict" /\ DOMAIN b.v # {}
TypedStory(b) ==
    /\ ExistingItem(b)
    /\ "type" \in DOMAIN b.v
    /\ b.v.type.t = "str"
    /\ b.v.type.v = <<"story">>

\* C4: after a successful fetch, get_story returns exactly
\* {"error": "Story <story_id> not found"} for a null or empty body (also
\* when that body has no type, so the absent check comes first), exactly
\* {"error": "Item <story_id> is not a story"} for an existing item whose
\* type is not "story", and a Story record with text and kids and without
\* time_iso exactly for an existing item of type "story".
C4_GetStoryOutcomes ==
    (pc = "done" /\ op = "story" /\ AllOk) =>
        /\ Absent(body) =>
              result.doc = PyDict([error |-> PyStr(<<"Story ">> \o IdText(story_id)
                                                    \o <<" not found">>)])
        /\ (ExistingItem(body) /\ ~TypedStory(body)) =>
              result.doc = PyDict([error |-> PyStr(<<"Item ">> \o IdText(story_id)
                                                    \o <<" is not a story">>)])
        /\ TypedStory(body) =>
              /\ IsRecordOf("story", result.doc)
              /\ {"text", "kids"} \subseteq DOMAIN result.doc.v
              /\ "time_iso" \notin DOMAIN result.doc.v
        /\ ~IsErrorDoc(result.doc) => TypedStory(body)

\* C4 witness: get_story(999999) answered with a null body
C4_Witness ==
    /\ pc = "done"
    /\ op = "story"
    /\ AllOk
    /\ story_id = 999999
    /\ body.t = "none"
    /\ result.doc.v.error.v[1] = "Story "

Smaller(a, b) == IF a <= b THEN a ELSE b

ClampedTo(l, raw, hi) ==
    /\ l \in 1..hi
    /\ raw < 1 => l = 1
    /\ raw > hi => l = hi
    /\ raw \in 1..hi => l = raw

\* C5: for every integer limit the count used by get_top_stories and
\* get_new_stories is the limit clamped into [1,30] (the id list is cut to
\* that many ids, or to its own length if shorter), the count used by
\* search_stories is the limit clamped into [1,20] and is the hit count
\* sent upstream, and no limit makes the operation answer with an error.
C5_LimitClamping ==
    /\ ListingOp =>
          /\ ClampedTo(limit, arg_limit, 30)
          /\ (pc \in {"loop", "done"} /\ body.t = "list") =>
                /\ Len(story_ids) = Smaller(limit, Len(body.v))
                /\ Len(seen) <= limit
    /\ op = "search" =>
          /\ ClampedTo(limit, arg_limit, 20)
          /\ \A k \in 1..Len(log) : log[k].req = "search" /\ log[k].n = limit
    /\ pc = "done" => IsExpectedData(op, result.doc)
    /\ (pc = "done" /\ ListingOp) =>
          Len(result.doc.v) = Smaller(limit, Len(body.v))

\* C5 witness: limit=100 on a listing of more than 30 ids returns 30 stories
C5_Witness ==
    /\ pc = "done"
    /\ op = "top"
    /\ arg_limit = 100
    /\ Len(body.v) > 30
    /\ Len(result.doc.v) = 30

StoryCount == Cardinality({ k \in 1..Len(seen) : TypedStory(seen[k]) })
Skippable(b) == b.t = "none" \/ b.t = "dict"

\* C6: in get_top_stories / get_new_stories every record of the output was
\* built from a fetched item whose type is "story", the output holds one
\* record per such item, and a fetched item that is null, has no type or
\* has another type is skipped: a run whose fetches all succeeded and whose
\* items were all objects or null ends with an array, not an error.
C6_OnlyStoriesListed ==
    ListingOp =>
        /\ Len(stories) = Len(src)
        /\ \A k \in 1..Len(src) :
              /\ TypedStory(src[k].item)
              /\ src[k].item = seen[src[k].pos]
        /\ Len(stories) = StoryCount
        /\ (pc = "done" /\ AllOk /\ body.t = "list"
              /\ \A k \in 1..Len(seen) : Skippable(seen[k]))
             => (result.doc.t = "list" /\ Len(result.doc.v) = StoryCount)

\* C6 witness: a returned array after a null item and a job item were
\* skipped and a story was kept
C6_Witness ==
    /\ ListingOp
    /\ pc = "done"
    /\ result.doc.t = "list"
    /\ Len(result.doc.v) = 1
    /\ \E k \in 1..Len(seen) : seen[k].t = "none"
    /\ \E k \in 1..Len(seen) :
          ExistingItem(seen[k]) /\ "type" \in DOMAIN seen[k].v /\ ~TypedStory(seen[k])

BuiltFrom(rec, item, sid) ==
    /\ rec.v.id = Get(item, "id", PyNone)
    /\ rec.v.url = Get(item, "url", DiscussionUrl(PyInt(sid)))

HitsOf(b) == IF "hits" \in DOMAIN b.v THEN b.v.hits.v ELSE <<>>

\* C7: the records of a listing result come from strictly increasing
\* positions of the upstream id list, the k-th record being the one built
\* from the k-th kept item, and a search result has one record per upstream
\* hit, the k-th record carrying the k-th hit's objectID.
C7_UpstreamOrder ==
    /\ ListingOp =>
          /\ \A k \in 1..(Len(src) - 1) : src[k].pos < src[k + 1].pos
          /\ Len(stories) = Len(src)
          /\ \A k \in 1..Len(stories) :
                BuiltFrom(stories[k], src[k].item, body.v[src[k].pos])
          /\ (pc = "done" /\ result.doc.t = "list") => result.doc.v = stories
    /\ (op = "search" /\ pc = "done" /\ result.doc.t = "list") =>
          /\ Len(result.doc.v) = Len(HitsOf(body))
          /\ \A k \in 1..Len(result.doc.v) :
                result.doc.v[k].v.id = Get(HitsOf(body)[k], "objectID", PyNone)

\* C7 witness: a listing result of two records taken from positions 1 and 3
C7_Witness ==
    /\ ListingOp
    /\ pc = "done"
    /\ result.doc.t = "list"
    /\ Len(result.doc.v) = 2
    /\ Len(src) = 2
    /\ src[1].pos = 1
    /\ src[2].pos = 3

\* C8: a listing operation fetches the first clamp(limit) ids of the
\* upstream list and no others, and returns the story-typed items among
\* them: the output is never longer than the clamped limit and is strictly
\* shorter as soon as one fetched item is filtered out.
C8_NoBackfill ==
    (ListingOp /\ pc \in {"loop", "done"} /\ body.t = "list") =>
        /\ Len(story_ids) <= limit
        /\ Len(story_ids) <= Len(body.v)
        /\ \A k \in 1..Len(story_ids) : story_ids[k] = body.v[k]
        /\ \A k \in 2..Len(log) : k - 1 <= limit /\ log[k].n = body.v[k - 1]
        /\ (pc = "done" /\ result.doc.t = "list") =>
              /\ Len(seen) = Smaller(limit, Len(body.v))
              /\ Len(result.doc.v) = StoryCount
              /\ Len(result.doc.v) <= limit
              /\ (\E k \in 1..Len(seen) : ~TypedStory(seen[k]))
                    => Len(result.doc.v) < limit

\* C8 witness: limit 2 on a listing of three ids whose second item is a job
\* returns one story, and the third id was never fetched
C8_Witness ==
    /\ ListingOp
    /\ pc = "done"
    /\ limit = 2
    /\ body.t = "list"
    /\ Len(body.v) = 3
    /\ Len(log) = 3
    /\ Len(seen) = 2
    /\ TypedStory(seen[1])
    /\ ~TypedStory(seen[2])
    /\ result.doc.t = "list"
    /\ Len(result.doc.v) = 1

NoLink(rec) == "url" \notin DOMAIN rec.v \/ rec.v.url.t = "none"

UrlAsClaimed(out, upstream) ==
    IF NoLink(upstream)
        THEN /\ out.v.url.t = "str"
             /\ out.v.url.v = <<"https://news.ycombinator.com/item?id=">>
                                 \o Str(out.v.id)
    ELSE out.v.url = upstream.v.url

\* C9 (as claimed): in every operation an output record whose upstream
\* record provides no link in its url field has the discussion link of its
\* own id as url, and otherwise has the upstream url unchanged.
C9_UrlSynthesis ==
    /\ ListingOp =>
          \A k \in 1..Len(stories) : UrlAsClaimed(stories[k], src[k].item)
    /\ (op = "story" /\ pc = "done" /\ ~IsErrorDoc(result.doc)) =>
          UrlAsClaimed(result.doc, body)
    /\ (op = "search" /\ pc = "done" /\ result.doc.t = "list") =>
          \A k \in 1..Len(result.doc.v) :
              UrlAsClaimed(result.doc.v[k], HitsOf(body)[k])

DefaultsAsClaimed(out) ==
    /\ out.v.title.t = "str"
    /\ out.v.author.t = "str"
    /\ out.v.score.t = "int"
    /\ out.v.time.t = "int"
    /\ "comments" \in DOMAIN out.v => out.v.comments.t = "int"

\* C10 (as claimed): in every output record of every operation title and
\* author are strings and score, comments and time are integers; none of
\* them is null.
C10_FieldDefaulting ==
    /\ ListingOp => \A k \in 1..Len(stories) : DefaultsAsClaimed(stories[k])
    /\ (op = "story" /\ pc = "done" /\ ~IsErrorDoc(result.doc)) =>
          DefaultsAsClaimed(result.doc)
    /\ (op = "search" /\ pc = "done" /\ result.doc.t = "list") =>
          \A k \in 1..Len(result.doc.v) : DefaultsAsClaimed(result.doc.v[k])

\* ------------------------------------------- an invocation run on its own
\* one whole listing loop over ids, answered by rs[2], rs[3], ...
RECURSIVE AloneLoop(_, _, _, _, _)
AloneLoop(kind, ids, rs, k, acc) ==
    IF k > Len(ids) THEN Returned(PyList(acc))
    ELSE LET r == rs[k + 1]
         IN IF ~r.ok THEN Handle(r.exc)
            ELSE IF Truthy(r.body) /\ r.body.t # "dict"
                THEN Handle(Exc("AttributeError", "object has no attribute 'get'"))
            ELSE AloneLoop(kind, ids, rs, k + 1,
                           IF IsStory(r.body)
                               THEN AppendStory(acc, ListingRecord(kind, r.body, ids[k]))
                           ELSE acc)

\* one operation from entry to return, with no other invocation around,
\* answered by the upstream responses rs in the order it asks
RunAlone(o, raw, sid, rs) ==
    IF ~rs[1].ok THEN Handle(rs[1].exc)
    ELSE IF o = "story" THEN StoryResult(rs[1].body, sid)
    ELSE IF o = "search" THEN SearchResult(rs[1].body)
    ELSE IF rs[1].body.t # "list"
        THEN Handle(Exc("TypeError", "object is not subscriptable"))
    ELSE AloneLoop(o, Slice(rs[1].body.v, Clamp(raw, LimitMax(o))), rs, 1, <<>>)

\* the upstream responses an invocation has received, in order
FailureReceived(f) ==
    CHOOSE r \in Failures :
        r.exc.cls = (IF f.failed = "" THEN "JSONDecodeError" ELSE f.failed)

Received(f) ==
    [k \in 1..Len(f.log) |->
        IF ~f.log[k].ok THEN FailureReceived(f)
        ELSE IF f.op \in {"top", "new"} /\ k > 1 THEN Ok(f.seen[k - 1])
        ELSE Ok(f.body)]

FrameOf(i) == IF i = cur THEN Running ELSE saved[i]

\* C11: whatever the interleaving of the invocations' upstream calls, every
\* finished invocation holds the result the same operation gives when run
\* alone on the responses that invocation received, and every invocation
\* inside its listing loop holds the list of stories a run alone would have
\* built from the items it has fetched so far; nothing another invocation
\* did, before or during it, shows in either.
C11_IndependentInvocations ==
    \A i \in Invocations :
        LET f == FrameOf(i)
        IN /\ f.pc = "done" =>
                f.result = RunAlone(f.op, f.arg_limit, f.story_id, Received(f))
           /\ f.pc = "loop" =>
                Returned(PyList(f.stories))
                    = AloneLoop(f.op, SubSeq(f.story_ids, 1, f.idx - 1),
                                Received(f), 1, <<>>)

\* C11 witness: an invocation returns its two stories while another one is
\* suspended inside its own loop holding one story
C11_Witness ==
    /\ pc = "done"
    /\ ListingOp
    /\ result.doc.t = "list"
    /\ Len(result.doc.v) = 2
    /\ \E i \in Invocations \ {cur} :
          /\ saved[i].pc = "loop"
          /\ saved[i].idx = 2
          /\ Len(saved[i].stories) = 1

====
